---- MODULE Spec2Model ----
(***************************************************************************)
(* A model of the kre8ntemjs fuzzer: the crash-signature normaliser, the   *)
(* concretizer, the engine harness, the line-drop minimizer and the driver *)
(* loop of kre8ntemjs_cli.                                                 *)
(*                                                                         *)
(* Strings are sequences of one-character strings, so that `find`,         *)
(* `contains`, `lines` and the regular expressions of the source are       *)
(* computed character by character, as the source computes them.           *)
(***************************************************************************)
EXTENDS Integers, Sequences, FiniteSets, TLC

VARIABLES
    \* ---- crash_signature (kre8ntemjs_cli/src/main.rs) ----
    sg_pc,          \* "start" | "done"
    sg_pre,         \* text before the replaced occurrence
    sg_lit,         \* the occurrence in s
    sg_rep,         \* what replaces it in s'
    sg_post,        \* text after the replaced occurrence
    sg_sig,         \* crash_signature(s)
    sg_sig2,        \* crash_signature(s')
    \* ---- Concretizer::concretize (kre8ntemjs_core/src/lib.rs) ----
    conc_pc,        \* "integer" | "var" | "code_str" | "done"
    tpl,            \* tpl.source, the template
    out,            \* the string being concretized
    id_pool,        \* the identifiers a <var> may become
    \* ---- Engine::run_js / run_js_with_args (kre8ntemjs_core/src/lib.rs) ----
    eng_pc,         \* "spawn" | "try_wait" | "deadline" | "returned" | "error"
    eng_fn,         \* "run_js" | "run_js_with_args"
    timeout,        \* self.timeout, in ms
    child,          \* the engine process: when it exits, its code and streams
    elapsed,        \* start.elapsed(), in ms
    timed_out,      \* the local flag of the poll loop
    killed,         \* child.kill() was called
    streams_read,   \* child.stdout / child.stderr were read
    outcome,        \* the RunOutcome returned, None before
    \* ---- minimize_by / minimize_preserving_coverage (minimizer.rs) ----
    min_pc,         \* "loop" | "error" | "returned" | "checked"
    min_fn,         \* "minimize_by" | "minimize_preserving_coverage"
    prog,           \* the program handed to the minimizer
    lines,          \* the lines still kept
    i,              \* the index of the line tried next (0-based, as in the source)
    answers,        \* what the engine and oracle answered, per program run
    runs,           \* the number of engine runs of the loop
    minimized,      \* the caller's `minimized`, None before
    holds_on_min,   \* the oracle on a run of `minimized`, None before
    \* ---- main, the driver loop (kre8ntemjs_cli/src/main.rs) ----
    drv_pc,         \* "running" | "failed" (an error left main) | "finished"
    args,           \* the command line: score_regex given, keep_only_increasing, minimize_by
    iter,           \* the loop variable i of main: the iterations started so far
    seen,           \* the Seen set of signatures
    syntax_errors,  \* counter
    crashes,        \* counter (unique_crashes in the progress line)
    timeouts,       \* counter
    best_score,     \* the running best coverage score
    files,          \* the files written to args.out
    last,           \* the last iteration: what the engine answered, how it was triaged
    accepted,       \* history: <<iteration, signature, kind, score>> of every accepted timeout or crash
    triaged,        \* history: <<outcome, score, classification>> of every completed iteration
    \* ---- Extractor::extract and Mutator (kre8ntemjs_core/src/lib.rs) ----
    ex_pc,          \* "seed" | "template"
    seed_src,       \* the seed source
    template,       \* the template's source, <<>> before extraction
    n_ops           \* the number of Mutator operations applied

sigVars == <<sg_pc, sg_pre, sg_lit, sg_rep, sg_post, sg_sig, sg_sig2>>

concVars == <<conc_pc, tpl, out, id_pool>>

engVars ==
    <<eng_pc, eng_fn, timeout, child, elapsed, timed_out, killed, streams_read, outcome>>

minVars == <<min_pc, min_fn, prog, lines, i, answers, runs, minimized, holds_on_min>>

drvVars ==
    <<drv_pc, args, iter, seen, syntax_errors, crashes, timeouts, best_score, files,
      last, accepted, triaged>>

exVars == <<ex_pc, seed_src, template, n_ops>>

vars == <<sigVars, concVars, engVars, minVars, drvVars, exVars>>

sigOthers == <<concVars, engVars, minVars, drvVars, exVars>>

concOthers == <<sigVars, engVars, minVars, drvVars, exVars>>

engOthers == <<sigVars, concVars, minVars, drvVars, exVars>>

minOthers == <<sigVars, concVars, engVars, drvVars, exVars>>

drvOthers == <<sigVars, concVars, engVars, minVars, exVars>>

exOthers == <<sigVars, concVars, engVars, minVars, drvVars>>

\* Option<T>: None is the empty sequence, Some(x) the one-element sequence
None == <<>>

Some(x) == <<x>>

(***************************************************************************)
(* Strings                                                                 *)
(***************************************************************************)
Digits == {"0", "1", "2", "3", "4", "5", "6", "7", "8", "9"}

Letters ==
    {"a", "b", "c", "d", "e", "f", "g", "h", "i", "j", "k", "l", "m",
     "n", "o", "p", "q", "r", "s", "t", "u", "v", "w", "x", "y", "z",
     "A", "B", "C", "D", "E", "F", "G", "H", "I", "J", "K", "L", "M",
     "N", "O", "P", "Q", "R", "S", "T", "U", "V", "W", "X", "Y", "Z"}

HexDigits == Digits \cup {"a", "b", "c", "d", "e", "f", "A", "B", "C", "D", "E", "F"}

\* str::find / str::contains: does pat occur in s at (1-based) position p
OccursAt(s, pat, p) ==
    /\ p >= 1
    /\ p + Len(pat) - 1 <= Len(s)
    /\ \A k \in 1..Len(pat) : s[p + k - 1] = pat[k]

Contains(s, pat) == \E p \in 1..(Len(s) + 1) : OccursAt(s, pat, p)

\* str::find: the first position where pat occurs in s, 0 for None
Find(s, pat) ==
    IF Contains(s, pat)
    THEN CHOOSE p \in 1..(Len(s) + 1) :
            /\ OccursAt(s, pat, p)
            /\ \A q \in 1..(p - 1) : ~OccursAt(s, pat, q)
    ELSE 0

\* String::replace_range(p..p+n, rep)
ReplaceRange(s, p, n, rep) ==
    SubSeq(s, 1, p - 1) \o rep \o SubSeq(s, p + n, Len(s))

RECURSIVE Flatten(_)
Flatten(ss) == IF ss = <<>> THEN <<>> ELSE Head(ss) \o Flatten(Tail(ss))

Range(f) == {f[k] : k \in DOMAIN f}

\* the number of leading characters of s, from position p on, that are in cls
RECURSIVE RunLen(_, _, _)
RunLen(s, p, cls) ==
    IF p <= Len(s) /\ s[p] \in cls THEN 1 + RunLen(s, p + 1, cls) ELSE 0

(***************************************************************************)
(* crash_signature                                                         *)
(***************************************************************************)
\* re_hex = 0x[0-9a-fA-F]+ : length of the match that starts at p, 0 if none
ReHexMatchLen(s, p) ==
    IF OccursAt(s, <<"0", "x">>, p) /\ RunLen(s, p + 2, HexDigits) >= 1
    THEN 2 + RunLen(s, p + 2, HexDigits)
    ELSE 0

\* re_line without its optional `(:\d+)?` column group
ReLineMatchLen_NoColumn(s, p) ==
    IF OccursAt(s, <<":">>, p) /\ RunLen(s, p + 1, Digits) >= 1
    THEN 1 + RunLen(s, p + 1, Digits)
    ELSE 0

\* re_line = :\d+(:\d+)? : length of the match that starts at p, 0 if none
ReLineMatchLen(s, p) ==
    IF OccursAt(s, <<":">>, p) /\ RunLen(s, p + 1, Digits) >= 1
    THEN LET d1 == RunLen(s, p + 1, Digits)
             q  == p + 1 + d1
             d2 == IF OccursAt(s, <<":">>, q) THEN RunLen(s, q + 1, Digits) ELSE 0
         IN  IF d2 >= 1 THEN 1 + d1 + 1 + d2 ELSE 1 + d1
    ELSE 0

HexLit == <<"0", "x", "H", "E", "X">>

LineLit == <<":", "L", "I", "N", "E">>

\* Regex::replace_all: leftmost, non-overlapping matches, scanned from p
RECURSIVE ReplaceAllHex(_, _)
ReplaceAllHex(s, p) ==
    IF p > Len(s) THEN <<>>
    ELSE LET m == ReHexMatchLen(s, p)
         IN  IF m > 0 THEN HexLit \o ReplaceAllHex(s, p + m)
             ELSE <<s[p]>> \o ReplaceAllHex(s, p + 1)

RECURSIVE ReplaceAllLine(_, _)
ReplaceAllLine(s, p) ==
    IF p > Len(s) THEN <<>>
    ELSE LET m == ReLineMatchLen(s, p)
         IN  IF m > 0 THEN LineLit \o ReplaceAllLine(s, p + m)
             ELSE <<s[p]>> \o ReplaceAllLine(s, p + 1)

\* Sha1 + hex formatting: a collision-free digest of the normalised text
Sha1Hex(norm) == <<"sha1", norm>>

Normalize(stderr) ==
    LET after_hex == ReplaceAllHex(stderr, 1)
    IN  ReplaceAllLine(after_hex, 1)

crash_signature(stderr) == Sha1Hex(Normalize(stderr))

SigIdle ==
    /\ sg_pc = "idle"
    /\ sg_pre = <<>>
    /\ sg_lit = <<>>
    /\ sg_rep = <<>>
    /\ sg_post = <<>>
    /\ sg_sig = <<>>
    /\ sg_sig2 = <<>>

ConcIdle ==
    /\ conc_pc = "idle"
    /\ tpl = <<>>
    /\ out = <<>>
    /\ id_pool = {}

EngIdle ==
    /\ eng_pc = "idle"
    /\ eng_fn = None
    /\ timeout = 0
    /\ child = None
    /\ elapsed = 0
    /\ timed_out = FALSE
    /\ killed = FALSE
    /\ streams_read = FALSE
    /\ outcome = None

MinIdle ==
    /\ min_pc = "idle"
    /\ min_fn = None
    /\ prog = <<>>
    /\ lines = <<>>
    /\ i = 0
    /\ answers = {}
    /\ runs = 0
    /\ minimized = None
    /\ holds_on_min = None

DrvIdle ==
    /\ drv_pc = "idle"
    /\ args = None
    /\ iter = 0
    /\ seen = {}
    /\ syntax_errors = 0
    /\ crashes = 0
    /\ timeouts = 0
    /\ best_score = 0
    /\ files = {}
    /\ last = None
    /\ accepted = {}
    /\ triaged = {}

ExIdle ==
    /\ ex_pc = "idle"
    /\ seed_src = <<>>
    /\ template = <<>>
    /\ n_ops = 0

(***************************************************************************)
(* Signature normalisation under substitution: s = pre ++ lit ++ post and  *)
(* s' = pre ++ rep ++ post, with lit and rep two hex literals, or lit a    *)
(* `:<digits>` / `:<digits>:<digits>` reference and rep a `:<digits>` one. *)
(***************************************************************************)
MaxCtx == 2

CtxAlphabet == {"0", "x", ":", "f", "g"}

StringsUpTo(alphabet, n) == UNION {[1..k -> alphabet] : k \in 0..n}

HexLits == {<<"0", "x", "1">>, <<"0", "x", "f", "0">>}

LineOccs == {<<":", "1">>, <<":", "0">>, <<":", "1", ":", "0">>}

LineReps == {<<":", "7">>, <<":", "1", "0">>}

SubstPairs ==
    {pr \in HexLits \X HexLits : pr[1] # pr[2]}
        \cup {pr \in LineOccs \X LineReps : pr[1] # pr[2]}

sg_s == sg_pre \o sg_lit \o sg_post

sg_s2 == sg_pre \o sg_rep \o sg_post

SigInit ==
    /\ sg_pc = "start"
    /\ sg_pre \in StringsUpTo(CtxAlphabet, MaxCtx)
    /\ sg_post \in StringsUpTo(CtxAlphabet, MaxCtx)
    /\ \E pr \in SubstPairs : sg_lit = pr[1] /\ sg_rep = pr[2]
    /\ sg_sig = <<>>
    /\ sg_sig2 = <<>>
    /\ ConcIdle
    /\ EngIdle
    /\ MinIdle
    /\ DrvIdle
    /\ ExIdle

\* the two iterations of scenario S5: the signature of each stderr
ComputeSignatures ==
    /\ sg_pc = "start"
    /\ sg_sig' = crash_signature(sg_s)
    /\ sg_sig2' = crash_signature(sg_s2)
    /\ sg_pc' = "done"
    /\ UNCHANGED <<sg_pre, sg_lit, sg_rep, sg_post>>
    /\ UNCHANGED sigOthers

SigNext == ComputeSignatures

SpecSig == SigInit /\ [][SigNext]_vars

IsHexLit(lit) == Len(lit) >= 2 /\ lit[1] = "0" /\ lit[2] = "x"

\* the occurrence is not glued to its neighbours: nothing before it that a
\* match could start in and run into it, nothing after it that its own match
\* (or the replacement's) could run into
Delimited ==
    IF IsHexLit(sg_lit)
    THEN sg_pre = <<>> \/ sg_pre[Len(sg_pre)] \notin (HexDigits \cup {"x"})
    ELSE /\ sg_pre = <<>> \/ sg_pre[Len(sg_pre)] \notin Digits
         /\ sg_post = <<>> \/ sg_post[1] \notin (Digits \cup {":", "x"})

\* C9 as stated: the substitution never changes the signature, whatever
\* text surrounds the replaced occurrence.
C9_SubstAnyContext == sg_pc = "done" => sg_sig = sg_sig2

\* C9 amended: the substitution does not change the signature when the
\* replaced occurrence is delimited: a hex literal not directly preceded
\* by a hex digit or `x`; a line reference not directly preceded by a digit
\* and not directly followed by a digit, `:` or `x`.
C9_SubstDelimited == (sg_pc = "done" /\ Delimited) => sg_sig = sg_sig2

C9_Witness ==
    /\ sg_pc = "done"
    /\ Delimited
    /\ sg_pre # <<>>
    /\ sg_post # <<>>
    /\ sg_lit = <<":", "1", ":", "0">>
    /\ sg_sig = sg_sig2
    /\ Contains(sg_sig[2], LineLit)

(***************************************************************************)
(* Concretizer::concretize                                                 *)
(***************************************************************************)
TokVar == <<"<", "v", "a", "r", ">">>

TokInteger == <<"<", "i", "n", "t", "e", "g", "e", "r", ">">>

TokCodeStr == <<"<", "c", "o", "d", "e", "_", "s", "t", "r", ">">>

\* Template::tokens(), in vocabulary order
Tokens == <<TokVar, TokInteger, TokCodeStr>>

IntLo == -10000

IntHi == 10000

DigitChars == <<"0", "1", "2", "3", "4", "5", "6", "7", "8", "9">>

\* i32::to_string
RECURSIVE DecDigits(_)
DecDigits(n) ==
    IF n < 10 THEN <<DigitChars[n + 1]>>
    ELSE DecDigits(n \div 10) \o <<DigitChars[(n % 10) + 1]>>

IntToString(v) == IF v < 0 THEN <<"-">> \o DecDigits(0 - v) ELSE DecDigits(v)

WordChars == Letters \cup Digits \cup {"_"}

IsWordAt(s, p) == p >= 1 /\ p <= Len(s) /\ s[p] \in WordChars

\* \b([A-Za-z_]\w*)\b : length of the match that starts at p, 0 if none
ReIdentMatchLen(s, p) ==
    IF /\ IsWordAt(s, p)
       /\ ~IsWordAt(s, p - 1)
       /\ s[p] \in (Letters \cup {"_"})
    THEN RunLen(s, p, WordChars)
    ELSE 0

\* captures_iter: the captured identifiers, scanned from p
RECURSIVE IdentCaptures(_, _)
IdentCaptures(s, p) ==
    IF p > Len(s) THEN {}
    ELSE LET m == ReIdentMatchLen(s, p)
         IN  IF m > 0 THEN {SubSeq(s, p, p + m - 1)} \cup IdentCaptures(s, p + m)
             ELSE IdentCaptures(s, p + 1)

Keywords ==
    {<<"l", "e", "t">>, <<"c", "o", "n", "s", "t">>, <<"v", "a", "r">>,
     <<"f", "u", "n", "c", "t", "i", "o", "n">>, <<"c", "l", "a", "s", "s">>,
     <<"t", "r", "y">>, <<"c", "a", "t", "c", "h">>, <<"f", "o", "r">>,
     <<"r", "e", "t", "u", "r", "n">>}

FallbackPool ==
    {<<"a">>, <<"b">>, <<"c">>, <<"x">>, <<"y">>, <<"z">>,
     <<"t", "m", "p">>, <<"o", "b", "j">>, <<"v">>}

\* the pool as the set of its elements (choose draws one element of the Vec)
BuildIdPool(s) == (IdentCaptures(s, 1) \ Keywords) \cup FallbackPool

Snippets ==
    {<<"\\", "\"", "l", "e", "t", " ", "k", " ", "=", " ", "1", ";", "\\", "\"">>,
     <<"\\", "\"", "c", "l", "a", "s", "s", " ", "C", "{", "}", "\\", "\"">>,
     <<"\\", "\"", "(", "{", "a", ":", "1", "}", ")", "\\", "\"">>,
     <<"\\", "\"", "f", "u", "n", "c", "t", "i", "o", "n", " ", "f", "(", ")", "{", "}", "\\", "\"">>}

\* the values rng.gen_range(-10_000..=10_000) is drawn from in the model
IntChoices == {IntLo, 0, IntHi}

MaxPieces == 4

TemplatePieces ==
    {<<"<">>, <<">">>, TokVar, TokInteger, TokCodeStr,
     <<"i", "n", "t", "e", "g", "e", "r">>,
     <<"c", "o", "d", "e", "_", "s", "t", "r">>}

Templates ==
    {Flatten(ps) : ps \in UNION {[1..k -> TemplatePieces] : k \in 0..MaxPieces}}

ConcInit ==
    /\ conc_pc = "integer"
    /\ tpl \in Templates
    /\ out = tpl
    /\ id_pool = {}
    /\ SigIdle
    /\ EngIdle
    /\ MinIdle
    /\ DrvIdle
    /\ ExIdle

\* while let Some(pos) = out.find("<integer>")
ConcReplaceInteger ==
    /\ conc_pc = "integer"
    /\ Find(out, TokInteger) # 0
    /\ \E val \in IntChoices :
          out' = ReplaceRange(out, Find(out, TokInteger), Len(TokInteger), IntToString(val))
    /\ UNCHANGED <<conc_pc, tpl, id_pool>>
    /\ UNCHANGED concOthers

\* the <integer> loop ends; the identifier pool is built from out as it is now
ConcBuildPool ==
    /\ conc_pc = "integer"
    /\ Find(out, TokInteger) = 0
    /\ id_pool' = BuildIdPool(out)
    /\ conc_pc' = "var"
    /\ UNCHANGED <<tpl, out>>
    /\ UNCHANGED concOthers

\* while let Some(pos) = out.find("<var>")
ConcReplaceVar ==
    /\ conc_pc = "var"
    /\ Find(out, TokVar) # 0
    /\ \E name \in id_pool :
          out' = ReplaceRange(out, Find(out, TokVar), Len(TokVar), name)
    /\ UNCHANGED <<conc_pc, tpl, id_pool>>
    /\ UNCHANGED concOthers

ConcVarDone ==
    /\ conc_pc = "var"
    /\ Find(out, TokVar) = 0
    /\ conc_pc' = "code_str"
    /\ UNCHANGED <<tpl, out, id_pool>>
    /\ UNCHANGED concOthers

\* while let Some(pos) = out.find("<code_str>")
ConcReplaceCodeStr ==
    /\ conc_pc = "code_str"
    /\ Find(out, TokCodeStr) # 0
    /\ \E s \in Snippets :
          out' = ReplaceRange(out, Find(out, TokCodeStr), Len(TokCodeStr), s)
    /\ UNCHANGED <<conc_pc, tpl, id_pool>>
    /\ UNCHANGED concOthers

ConcReturn ==
    /\ conc_pc = "code_str"
    /\ Find(out, TokCodeStr) = 0
    /\ conc_pc' = "done"
    /\ UNCHANGED <<tpl, out, id_pool>>
    /\ UNCHANGED concOthers

ConcNext ==
    \/ ConcReplaceInteger
    \/ ConcBuildPool
    \/ ConcReplaceVar
    \/ ConcVarDone
    \/ ConcReplaceCodeStr
    \/ ConcReturn

SpecConc == ConcInit /\ [][ConcNext]_vars

HasHole(s) == \E k \in 1..Len(Tokens) : Contains(s, Tokens[k])

\* C8: whatever the template and the random choices, the string concretize
\* returns contains none of <var>, <integer>, <code_str>.
C8_NoHoleRemains == conc_pc = "done" => ~HasHole(out)

(***************************************************************************)
(* Engine::run_js and Engine::run_js_with_args: the poll loop              *)
(***************************************************************************)
TimeoutStr == <<"t", "i", "m", "e", "o", "u", "t">>

\* std::thread::sleep(Duration::from_millis(10))
PollMs == 10

\* the granularity of time in the model: half a poll period, in ms
TimeStep == PollMs \div 2

\* the largest timeout and the latest exit of a child, in time steps
MaxTimeoutSteps == 4

\* how much longer than asked a sleep may last, in time steps
MaxOversleepSteps == 1

\* RunOutcome returned when try_wait reports the exit
RunOutcomeOnExit(ch, to, so, se) ==
    [status    |-> IF ch.code = None THEN -1 ELSE ch.code[1],
     timed_out |-> to,
     stdout    |-> so,
     stderr    |-> se]

\* a deadline branch that drains the child's stderr instead of inventing one
RunOutcomeOnTimeout_Drained(ch) ==
    [status    |-> -1,
     timed_out |-> TRUE,
     stdout    |-> <<>>,
     stderr    |-> ch.stderr]

\* RunOutcome returned when the deadline is reached: the child is not read
RunOutcomeOnTimeout(ch) ==
    [status    |-> -1,
     timed_out |-> TRUE,
     stdout    |-> <<>>,
     stderr    |-> TimeoutStr]

\* read_to_string(..).ok(): the whole stream, or what was read before an error
DrainResults(stream) == {SubSeq(stream, 1, k) : k \in 0..Len(stream)}

EngChildren ==
    [exit_at : {Some(k * TimeStep) : k \in 0..(MaxTimeoutSteps + 1)} \cup {None},
     code    : {Some(0), Some(1), None},
     stdout  : {<<>>, <<"o", "k">>},
     stderr  : {<<>>, <<"E", "r", "r">>, TimeoutStr}]

\* child.try_wait() returns Some(status) once the child has exited
HasExited(ch, now) == ch.exit_at # None /\ ch.exit_at[1] <= now

EngInit ==
    /\ eng_pc = "spawn"
    /\ eng_fn \in {"run_js", "run_js_with_args"}
    /\ timeout \in {k * TimeStep : k \in 0..MaxTimeoutSteps}
    /\ child \in EngChildren
    /\ elapsed = 0
    /\ timed_out = FALSE
    /\ killed = FALSE
    /\ streams_read = FALSE
    /\ outcome = None
    /\ SigIdle
    /\ ConcIdle
    /\ MinIdle
    /\ DrvIdle
    /\ ExIdle

\* the temp file is written and the engine spawned; start = Instant::now()
EngSpawn ==
    /\ eng_pc = "spawn"
    /\ eng_pc' = "try_wait"
    /\ UNCHANGED <<eng_fn, timeout, child, elapsed, timed_out, killed, streams_read, outcome>>
    /\ UNCHANGED engOthers

\* NamedTempFile::new, fs::write or spawn fails: Err is returned
EngSpawnFails ==
    /\ eng_pc = "spawn"
    /\ eng_pc' = "error"
    /\ UNCHANGED <<eng_fn, timeout, child, elapsed, timed_out, killed, streams_read, outcome>>
    /\ UNCHANGED engOthers

\* try_wait reports the exit: both streams are drained and the outcome returned
EngTryWaitExited ==
    /\ eng_pc = "try_wait"
    /\ HasExited(child, elapsed)
    /\ \E so \in DrainResults(child.stdout), se \in DrainResults(child.stderr) :
          outcome' = Some(RunOutcomeOnExit(child, timed_out, so, se))
    /\ streams_read' = TRUE
    /\ eng_pc' = "returned"
    /\ UNCHANGED <<eng_fn, timeout, child, elapsed, timed_out, killed>>
    /\ UNCHANGED engOthers

\* try_wait reports that the child still runs
EngTryWaitRunning ==
    /\ eng_pc = "try_wait"
    /\ ~HasExited(child, elapsed)
    /\ eng_pc' = "deadline"
    /\ UNCHANGED <<eng_fn, timeout, child, elapsed, timed_out, killed, streams_read, outcome>>
    /\ UNCHANGED engOthers

\* child.try_wait()? fails: Err is returned
EngTryWaitFails ==
    /\ eng_pc = "try_wait"
    /\ eng_pc' = "error"
    /\ UNCHANGED <<eng_fn, timeout, child, elapsed, timed_out, killed, streams_read, outcome>>
    /\ UNCHANGED engOthers

\* start.elapsed() >= self.timeout: kill and return the synthetic outcome
EngDeadlineReached ==
    /\ eng_pc = "deadline"
    /\ elapsed >= timeout
    /\ timed_out' = TRUE
    /\ killed' = TRUE
    /\ outcome' = Some(RunOutcomeOnTimeout(child))
    /\ eng_pc' = "returned"
    /\ UNCHANGED <<eng_fn, timeout, child, elapsed, streams_read>>
    /\ UNCHANGED engOthers

\* the deadline is not reached: sleep for 10 ms (or longer) and poll again
EngSleep ==
    /\ eng_pc = "deadline"
    /\ elapsed < timeout
    /\ \E over \in 0..MaxOversleepSteps : elapsed' = elapsed + PollMs + over * TimeStep
    /\ eng_pc' = "try_wait"
    /\ UNCHANGED <<eng_fn, timeout, child, timed_out, killed, streams_read, outcome>>
    /\ UNCHANGED engOthers

EngNext ==
    \/ EngSpawn
    \/ EngSpawnFails
    \/ EngTryWaitExited
    \/ EngTryWaitRunning
    \/ EngTryWaitFails
    \/ EngDeadlineReached
    \/ EngSleep

SpecEngine == EngInit /\ [][EngNext]_vars

IsPrefix(s, full) == Len(s) <= Len(full) /\ s = SubSeq(full, 1, Len(s))

\* the outcome try_wait's Some(status) leads to: the child's code and streams
ExitShape ==
    /\ outcome[1].timed_out = FALSE
    /\ outcome[1].status = (IF child.code = None THEN -1 ELSE child.code[1])
    /\ IsPrefix(outcome[1].stdout, child.stdout)
    /\ IsPrefix(outcome[1].stderr, child.stderr)
    /\ streams_read
    /\ ~killed
    /\ HasExited(child, elapsed)

\* the synthetic outcome of the deadline branch
TimeoutShape ==
    /\ outcome = Some([status |-> -1, timed_out |-> TRUE, stdout |-> <<>>, stderr |-> TimeoutStr])
    /\ killed
    /\ ~streams_read
    /\ ~HasExited(child, elapsed)
    /\ elapsed >= timeout

NL == "\n"

CR == "\r"

\* a line without its ending: `\n`, or `\r\n`
StripCR(line) ==
    IF line # <<>> /\ line[Len(line)] = CR THEN SubSeq(line, 1, Len(line) - 1) ELSE line

\* str::lines: split at line endings; a last line without ending is a line,
\* nothing follows a final line ending
RECURSIVE SplitLines(_, _, _)
SplitLines(s, p, cur) ==
    IF p > Len(s) THEN (IF cur = <<>> THEN <<>> ELSE <<cur>>)
    ELSE IF s[p] = NL THEN <<StripCR(cur)>> \o SplitLines(s, p + 1, <<>>)
    ELSE SplitLines(s, p + 1, Append(cur, s[p]))

Lines(s) == SplitLines(s, 1, <<>>)

\* [&str]::join("\n")
RECURSIVE Join(_)
Join(ls) ==
    IF ls = <<>> THEN <<>>
    ELSE IF Len(ls) = 1 THEN ls[1]
    ELSE ls[1] \o <<NL>> \o Join(Tail(ls))

\* Vec::remove(i), i 0-based
RemoveAt(ls, k) == SubSeq(ls, 1, k) \o SubSeq(ls, k + 2, Len(ls))

Candidate == Join(RemoveAt(lines, i))

MaxProgLen == 4

ProgAlphabet == {"a", "b", NL}

\* the answers the engine may give for program p: the one it gave before, if
\* p was run before (the engine answers a program the same way each time)
AnswersFor(p) ==
    IF \E a \in answers : a[1] = p THEN {a[2] : a \in {b \in answers : b[1] = p}}
    ELSE BOOLEAN

MinInit ==
    /\ min_pc = "loop"
    /\ min_fn \in {"minimize_by", "minimize_preserving_coverage"}
    /\ prog \in StringsUpTo(ProgAlphabet, MaxProgLen)
    /\ lines = Lines(prog)
    /\ i = 0
    /\ answers = {}
    /\ runs = 0
    /\ minimized = None
    /\ holds_on_min = None
    /\ SigIdle
    /\ ConcIdle
    /\ EngIdle
    /\ DrvIdle
    /\ ExIdle

\* the loop condition, had it not kept the last line
LoopCondition_NoFloor == i < Len(lines)

\* while i < lines.len() && lines.len() > 1
LoopCondition == i < Len(lines) /\ Len(lines) > 1

\* an accepted deletion, had the index been advanced after it
MinAccept_Advance ==
    /\ min_pc = "loop"
    /\ LoopCondition
    /\ TRUE \in AnswersFor(Candidate)
    /\ answers' = answers \cup {<<Candidate, TRUE>>}
    /\ lines' = RemoveAt(lines, i)
    /\ i' = i + 1
    /\ runs' = runs + 1
    /\ UNCHANGED <<min_pc, min_fn, prog, minimized, holds_on_min>>
    /\ UNCHANGED minOthers

\* the candidate still shows the bug (or keeps the score): accept the deletion
MinAccept ==
    /\ min_pc = "loop"
    /\ LoopCondition
    /\ TRUE \in AnswersFor(Candidate)
    /\ answers' = answers \cup {<<Candidate, TRUE>>}
    /\ lines' = RemoveAt(lines, i)
    /\ runs' = runs + 1
    /\ UNCHANGED <<min_pc, min_fn, prog, i, minimized, holds_on_min>>
    /\ UNCHANGED minOthers

\* the candidate does not: keep the line and advance
MinReject ==
    /\ min_pc = "loop"
    /\ LoopCondition
    /\ FALSE \in AnswersFor(Candidate)
    /\ answers' = answers \cup {<<Candidate, FALSE>>}
    /\ i' = i + 1
    /\ runs' = runs + 1
    /\ UNCHANGED <<min_pc, min_fn, prog, lines, minimized, holds_on_min>>
    /\ UNCHANGED minOthers

\* engine.run_js(&candidate)? fails: the minimizer returns Err
MinRunFails ==
    /\ min_pc = "loop"
    /\ LoopCondition
    /\ min_pc' = "error"
    /\ UNCHANGED <<min_fn, prog, lines, i, answers, runs, minimized, holds_on_min>>
    /\ UNCHANGED minOthers

\* Ok(lines.join("\n")), which the caller unwraps
MinReturn ==
    /\ min_pc = "loop"
    /\ ~LoopCondition
    /\ minimized' = Some(Join(lines))
    /\ min_pc' = "returned"
    /\ UNCHANGED <<min_fn, prog, lines, i, answers, runs, holds_on_min>>
    /\ UNCHANGED minOthers

\* the caller's unwrap_or(prog.clone()) of an Err
MinFallback ==
    /\ min_pc = "error"
    /\ minimized' = Some(prog)
    /\ min_pc' = "returned"
    /\ UNCHANGED <<min_fn, prog, lines, i, answers, runs, holds_on_min>>
    /\ UNCHANGED minOthers

\* the returned program is run and the oracle asked
MinCheckResult ==
    /\ min_pc = "returned"
    /\ \E ans \in AnswersFor(minimized[1]) :
          /\ holds_on_min' = Some(ans)
          /\ answers' = answers \cup {<<minimized[1], ans>>}
    /\ min_pc' = "checked"
    /\ UNCHANGED <<min_fn, prog, lines, i, runs, minimized>>
    /\ UNCHANGED minOthers

MinNext ==
    \/ MinAccept
    \/ MinReject
    \/ MinRunFails
    \/ MinReturn
    \/ MinFallback
    \/ MinCheckResult

SpecMin == MinInit /\ [][MinNext]_vars

\* the minimizer with its caller, where a step that can be taken is taken:
\* every engine run returns, Ok or Err
SpecMinLive == MinInit /\ [][MinNext]_vars /\ WF_vars(MinNext)

\* C4: the program the signature-mode minimizer returns (with the caller's
\* fallback) either still satisfies the oracle when run, or is the input program.
C4_MinimizerSound ==
    (min_pc = "checked" /\ min_fn = "minimize_by") =>
        (holds_on_min = Some(TRUE) \/ minimized = Some(prog))

(***************************************************************************)
(* main: the driver loop and its triage                                    *)
(***************************************************************************)
SyntaxErrorStr == <<"S", "y", "n", "t", "a", "x", "E", "r", "r", "o", "r">>

ParseErrorStr == <<"P", "a", "r", "s", "e", " ", "e", "r", "r", "o", "r">>

UnexpectedTokenStr == <<"U", "n", "e", "x", "p", "e", "c", "t", "e", "d", " ", "t", "o", "k", "e", "n">>

ReferenceErrorStr == <<"R", "e", "f", "e", "r", "e", "n", "c", "e", "E", "r", "r", "o", "r", ":">>

PrototypeStr == <<"p", "r", "o", "t", "o", "t", "y", "p", "e">>

IsSyntaxError(stderr) ==
    \/ Contains(stderr, SyntaxErrorStr)
    \/ Contains(stderr, ParseErrorStr)
    \/ Contains(stderr, UnexpectedTokenStr)

\* boring, had it not spared the stderr that mentions prototype
IsBoring_NoPrototype(stderr) == Contains(stderr, ReferenceErrorStr)

\* let boring = outcome.stderr.contains("ReferenceError:") && !outcome.stderr.contains("prototype")
IsBoring(stderr) == Contains(stderr, ReferenceErrorStr) /\ ~Contains(stderr, PrototypeStr)

\* the number of iterations asked for (--iters)
MaxIters == 2

\* the largest score the scoring pass reports
MaxScore == 2

\* the engine processes of the driver's runs
Child(exit_at, code, stderr) ==
    [exit_at |-> exit_at, code |-> code, stdout |-> <<>>, stderr |-> stderr]

\* processes that exit at once, and one that never exits, whatever it has
\* printed so far
DrvChildren ==
    {Child(Some(0), Some(0), <<>>),
     Child(Some(0), Some(1), SyntaxErrorStr),
     Child(Some(0), Some(0), <<"x", ":", " ", "P", "a", "r", "s", "e", " ", "e", "r", "r", "o", "r">>),
     Child(Some(0), Some(1), <<"R", "e", "f", "e", "r", "e", "n", "c", "e", "E", "r", "r", "o", "r", ":", " ", "x">>),
     Child(Some(0), Some(1), <<"R", "e", "f", "e", "r", "e", "n", "c", "e", "E", "r", "r", "o", "r", ":", " ", "p", "r", "o", "t", "o", "t", "y", "p", "e">>),
     Child(Some(0), Some(1), <<"a", "t", " ", "0", "x", "1", "f", ":", "4">>),
     Child(Some(0), None, <<"a", "t", " ", "0", "x", "2", "a", ":", "7", ":", "1">>),
     Child(Some(0), Some(1), TimeoutStr),
     Child(None, None, SyntaxErrorStr)}

\* run_js, had it kept what the killed child wrote to stderr
RunJs_KeepStderr(ch) ==
    IF HasExited(ch, 0)
    THEN RunOutcomeOnExit(ch, FALSE, ch.stdout, ch.stderr)
    ELSE [status |-> -1, stdout |-> <<>>, stderr |-> ch.stderr, timed_out |-> TRUE]

\* eng.run_js(&prog), for a timeout larger than 0: Ok(outcome)
RunJs(ch) ==
    IF HasExited(ch, 0)
    THEN RunOutcomeOnExit(ch, FALSE, ch.stdout, ch.stderr)
    ELSE RunOutcomeOnTimeout(ch)

DrvOutcomes == {RunJs(ch) : ch \in DrvChildren}

\* the locals main derives from an outcome, tabulated for the outcomes above
DrvFacts ==
    [o \in DrvOutcomes |->
        [is_syntax_error |-> IsSyntaxError(o.stderr),
         boring          |-> IsBoring(o.stderr),
         sig             |-> crash_signature(o.stderr)]]

\* let is_syntax_error = ..
is_syntax_error(o) == DrvFacts[o].is_syntax_error

\* let boring = ..
boring(o) == DrvFacts[o].boring

\* let sig = crash_signature(&outcome.stderr)
sig_of(o) == DrvFacts[o].sig

HasScorer == args.score_re

\* the state main's loop body works on
St0 ==
    [seen          |-> seen,
     syntax_errors |-> syntax_errors,
     crashes       |-> crashes,
     timeouts      |-> timeouts,
     best_score    |-> best_score,
     files         |-> files,
     failed        |-> FALSE,
     error         |-> "none",
     min_error     |-> FALSE,
     run           |-> None,
     cov_score     |-> None,
     cls           |-> "none",
     accepted      |-> None]

\* an error leaves main through `?`
Failed(st) == [st EXCEPT !.failed = TRUE]

\* the same, remembering the call whose error it was
FailedAt(st, point) == [Failed(st) EXCEPT !.error = point]

\* if is_syntax_error { syntax_errors += 1; }
CountSyntax(st, o) ==
    IF is_syntax_error(o)
    THEN [st EXCEPT !.syntax_errors = @ + 1, !.cls = "syntax"]
    ELSE st

\* is_increasing, had it been s >= best_score
IsIncreasing_NonStrict(st, cov_score) == cov_score # None /\ cov_score[1] >= st.best_score

\* let is_increasing = if let Some(s) = cov_score { s > best_score } else { false }
IsIncreasing(st, cov_score) == cov_score # None /\ cov_score[1] > st.best_score

\* args.keep_only_increasing && score_re.is_some() && !is_increasing
GateSkips(st, cov_score) ==
    args.keep_only_increasing /\ HasScorer /\ ~IsIncreasing(st, cov_score)

\* the best score, had it never been raised
RaiseBest_Never(st, cov_score) == st

\* the best score, had it followed the last accepted score
RaiseBest_Always(st, cov_score) ==
    IF cov_score # None THEN [st EXCEPT !.best_score = cov_score[1]] ELSE st

\* if let Some(s) = cov_score { if s > best_score { best_score = s; } }
RaiseBest(st, cov_score) ==
    IF cov_score # None /\ cov_score[1] > st.best_score
    THEN [st EXCEPT !.best_score = cov_score[1]]
    ELSE st

\* std::fs::write(&path, ..)?
WriteFile(st, f, fails) ==
    IF st.failed THEN st
    ELSE IF fails THEN FailedAt(st, "write")
    ELSE [st EXCEPT !.files = @ \cup {f}]

\* the pair <kind>_iter<i>_sig<..>.js and .stderr.txt
RecordPair(st, kind, sig, body, fail) ==
    LET js  == [kind |-> kind, iter |-> iter, sig |-> sig, ext |-> "js", body |-> body]
        err == [kind |-> kind, iter |-> iter, sig |-> sig, ext |-> "stderr.txt", body |-> "stderr"]
    IN  WriteFile(WriteFile(st, js, fail = "write_js"), err, fail = "write_stderr")

\* the timeout branch, had it written without asking the Seen set
TimeoutBranch_NoDedup(st, o, cov_score, fail) ==
    IF GateSkips(st, cov_score) THEN st
    ELSE LET sig == sig_of(o)
             st1 == [RaiseBest(st, cov_score) EXCEPT
                        !.timeouts = @ + 1, !.cls = "timeout", !.accepted = Some(sig)]
         IN  RecordPair([st1 EXCEPT !.seen = @ \cup {sig}], "timeout", sig, "prog", fail)

\* if outcome.timed_out { .. }
TimeoutBranch(st, o, cov_score, fail) ==
    IF GateSkips(st, cov_score) THEN st
    ELSE LET sig == sig_of(o)
             st1 == [RaiseBest(st, cov_score) EXCEPT
                        !.timeouts = @ + 1, !.cls = "timeout", !.accepted = Some(sig)]
         IN  IF sig \notin st1.seen
             THEN RecordPair([st1 EXCEPT !.seen = @ \cup {sig}], "timeout", sig, "prog", fail)
             ELSE st1

\* the crash branch, had it written without asking the Seen set
CrashBranch_NoDedup(st, o, cov_score, min_ok, fail) ==
    IF boring(o) THEN [st EXCEPT !.cls = "boring"]
    ELSE IF GateSkips(st, cov_score) THEN st
    ELSE LET sig == sig_of(o)
             st1 == [RaiseBest(st, cov_score) EXCEPT !.cls = "crash", !.accepted = Some(sig)]
             st2 == [st1 EXCEPT !.seen = @ \cup {sig}, !.crashes = @ + 1]
         IN  RecordPair(st2, "crash", sig, IF min_ok THEN "minimized" ELSE "prog", fail)

\* else if outcome.status != 0 && !is_syntax_error { .. }
CrashBranch(st, o, cov_score, min_ok, fail) ==
    IF boring(o) THEN [st EXCEPT !.cls = "boring"]
    ELSE IF GateSkips(st, cov_score) THEN st
    ELSE LET sig == sig_of(o)
             st1 == [RaiseBest(st, cov_score) EXCEPT !.cls = "crash", !.accepted = Some(sig)]
         IN  IF sig \notin st1.seen
             THEN LET st2 == [st1 EXCEPT !.seen = @ \cup {sig}, !.crashes = @ + 1]
                  IN  IF /\ args.minimize_by = "coverage"
                         /\ HasScorer
                         /\ fail = "min_target"
                      THEN [FailedAt(st2, "min_target") EXCEPT !.min_error = TRUE]
                      ELSE RecordPair([st2 EXCEPT !.min_error = ~min_ok], "crash", sig,
                                      IF min_ok THEN "minimized" ELSE "prog", fail)
             ELSE st1

\* the loop body, had it gone on without a score when the scoring pass fails
LoopBody_ScoreErrorIgnored(run, score_run, min_ok, fail) ==
    IF fail = "seed" THEN FailedAt(St0, "seed")
    ELSE IF run = None THEN FailedAt(St0, "run")
    ELSE LET o   == run[1]
             st1 == CountSyntax(St0, o)
             st2 == [st1 EXCEPT !.cov_score = IF HasScorer THEN score_run ELSE None,
                                !.error = IF HasScorer /\ score_run = None
                                          THEN "score" ELSE "none"]
         IN  IF o.timed_out THEN TimeoutBranch(st2, o, st2.cov_score, fail)
             ELSE IF o.status # 0 /\ ~is_syntax_error(o)
                  THEN CrashBranch(st2, o, st2.cov_score, min_ok, fail)
             ELSE st2

\* one pass of the loop body: run (None for Err), score_run (None for Err),
\* min_ok (the minimizer returned Ok), fail (the step that fails, if reached)
LoopBody(run, score_run, min_ok, fail) ==
    IF fail = "seed" THEN FailedAt(St0, "seed")
    ELSE IF run = None THEN FailedAt(St0, "run")
    ELSE LET o   == run[1]
             st1 == CountSyntax(St0, o)
         IN  IF HasScorer /\ score_run = None THEN FailedAt(st1, "score")
             ELSE LET cov_score == IF HasScorer THEN score_run ELSE None
                      st2 == [st1 EXCEPT !.cov_score = cov_score]
                  IN  IF o.timed_out THEN TimeoutBranch(st2, o, cov_score, fail)
                      ELSE IF o.status # 0 /\ ~is_syntax_error(o)
                           THEN CrashBranch(st2, o, cov_score, min_ok, fail)
                      ELSE st2

FailPoints == {"none", "seed", "write_js", "write_stderr", "min_target"}

DrvInit ==
    /\ drv_pc = "running"
    /\ args \in [score_re : BOOLEAN, keep_only_increasing : BOOLEAN,
                 minimize_by : {"signature", "coverage"}, iters : {MaxIters}]
    /\ iter = 0
    /\ seen = {}
    /\ syntax_errors = 0
    /\ crashes = 0
    /\ timeouts = 0
    /\ best_score = 0
    /\ files = {}
    /\ last = None
    /\ accepted = {}
    /\ triaged = {}
    /\ SigIdle
    /\ ConcIdle
    /\ EngIdle
    /\ MinIdle
    /\ ExIdle

\* for i in 0..args.iters { .. }: one iteration, to its end or to the error
\* that leaves main
Iteration ==
    /\ drv_pc = "running"
    /\ iter < args.iters
    /\ \E st \in {[LoopBody(run, score_run, min_ok, fail) EXCEPT
                        !.run = IF fail = "seed" THEN None ELSE run] :
                    run \in {None} \cup {Some(o) : o \in DrvOutcomes},
                    score_run \in (IF HasScorer
                                   THEN {None} \cup {Some(s) : s \in 0..MaxScore}
                                   ELSE {None}),
                    min_ok \in BOOLEAN,
                    fail \in FailPoints} :
          /\ seen' = st.seen
          /\ syntax_errors' = st.syntax_errors
          /\ crashes' = st.crashes
          /\ timeouts' = st.timeouts
          /\ best_score' = st.best_score
          /\ files' = st.files
          /\ drv_pc' = IF st.failed THEN "failed" ELSE "running"
          /\ iter' = IF st.failed THEN iter ELSE iter + 1
          /\ last' = Some([run |-> st.run, score |-> st.cov_score, cls |-> st.cls,
                           accepted |-> st.accepted, completed |-> ~st.failed,
                           error |-> st.error, min_error |-> st.min_error])
          /\ accepted' = IF st.accepted = None THEN accepted
                         ELSE accepted \cup {<<iter, st.accepted[1], st.cls, st.cov_score>>}
          /\ triaged' = IF st.failed THEN triaged
                        ELSE triaged \cup {<<st.run[1], st.cov_score, st.cls>>}
    /\ UNCHANGED args
    /\ UNCHANGED drvOthers

\* the loop ends and the summary is printed
Finish ==
    /\ drv_pc = "running"
    /\ iter = args.iters
    /\ drv_pc' = "finished"
    /\ UNCHANGED <<args, iter, seen, syntax_errors, crashes, timeouts, best_score, files,
                   last, accepted, triaged>>
    /\ UNCHANGED drvOthers

Next == Iteration \/ Finish

Spec == DrvInit /\ [][Next]_vars

(***************************************************************************)
(* Properties of the driver loop                                           *)
(***************************************************************************)
JsFiles == {f \in files : f.ext = "js"}

\* the signatures of the outcomes accepted so far as timeouts or crashes
InterestingSigs == {p[2] : p \in accepted}

\* a step of the loop: an iteration that completes, or one that fails
IterationStep == drv_pc = "running" /\ (iter' = iter + 1 \/ drv_pc' = "failed")

CompletedStep == drv_pc = "running" /\ iter' = iter + 1

\* the iteration of this step got an outcome from the engine
GotOutcome == last' # None /\ last'[1].run # None

NewOutcome == last'[1].run[1]

NewScore == last'[1].score

\* --keep-only-increasing with a scorer
GateActive == args.keep_only_increasing /\ args.score_re

Unrecorded == UNCHANGED <<seen, crashes, timeouts, files>>

\* C1: after every completed iteration, the number of .js artifacts written
\* equals the number of distinct signatures accepted as interesting so far.
C1_ArtifactsCountSignatures ==
    drv_pc \in {"running", "finished"} =>
        Cardinality(JsFiles) = Cardinality(InterestingSigs)

C1_Witness ==
    /\ drv_pc = "finished"
    /\ Cardinality(accepted) = 2
    /\ Cardinality(InterestingSigs) = 1
    /\ Cardinality(JsFiles) = 1

\* every artifact belongs to the first accepted iteration of its signature,
\* and no signature has two artifact pairs
OwnedByFirst ==
    /\ \A f \in files :
          /\ f.sig \in seen
          /\ \E p \in accepted : p[1] = f.iter /\ p[2] = f.sig
          /\ \A p \in accepted : p[2] = f.sig => f.iter <= p[1]
    /\ \A f, g \in files : (f.sig = g.sig /\ f.ext = g.ext) => f = g
    /\ drv_pc \in {"running", "finished"} =>
          \A p \in accepted : \E f \in JsFiles : f.sig = p[2]

\* C2: the Seen set only grows, and each signature gets at most one artifact
\* pair, written by the first iteration whose accepted outcome has it; later
\* iterations with that signature write nothing.
C2_SeenGrowsOnePairPerSignature ==
    /\ []OwnedByFirst
    /\ [][/\ seen \subseteq seen'
          /\ files \subseteq files'
          /\ \A f \in files' \ files : f.sig \notin seen /\ f.iter = iter]_vars

C2_Witness ==
    /\ drv_pc = "finished"
    /\ \E p, q \in accepted : p[1] = 0 /\ q[1] = 1 /\ p[2] = q[2]
    /\ \E t, u \in triaged : t[1].stderr # u[1].stderr /\ t[3] = "crash" /\ u[3] = "crash"
    /\ \A f \in files : f.iter = 0
    /\ Cardinality(files) = 2

\* a timed-out outcome, or a crash: a non-zero exit that is neither a syntax
\* error nor a boring reference error
IsCrash(o) ==
    ~o.timed_out /\ o.status # 0 /\ ~IsSyntaxError(o.stderr) /\ ~IsBoring(o.stderr)

\* C5: with a scorer and keep_only_increasing, a timed-out or crashing
\* outcome is accepted only if its score exceeds the best score; accepted, it
\* becomes the best score (and its signature is in Seen); rejected, the best
\* score, the Seen set, the counters and the artifacts stay as they are.
C5_Gate ==
    [][(/\ IterationStep
        /\ GateActive
        /\ GotOutcome
        /\ NewScore # None
        /\ (NewOutcome.timed_out \/ IsCrash(NewOutcome)))
       => IF last'[1].accepted # None
          THEN /\ NewScore[1] > best_score
               /\ best_score' = NewScore[1]
               /\ crash_signature(NewOutcome.stderr) \in seen'
          ELSE /\ NewScore[1] <= best_score
               /\ UNCHANGED <<best_score, seen, syntax_errors, crashes, timeouts, files>>]_vars

C5_Witness ==
    /\ GateActive
    /\ iter = 2
    /\ best_score = 1
    /\ last[1].score = Some(1)
    /\ last[1].accepted = None
    /\ last[1].run[1].timed_out
    /\ timeouts = 1

\* C6: an iteration whose outcome's stderr contains SyntaxError, Parse error
\* or Unexpected token counts one syntax error, writes no artifact and
\* inserts no signature, whatever the exit status.
C6_SyntaxErrorsOnlyCounted ==
    [][(IterationStep /\ GotOutcome /\ IsSyntaxError(NewOutcome.stderr))
       => /\ syntax_errors' = syntax_errors + 1
          /\ UNCHANGED <<seen, crashes, timeouts, files, best_score>>]_vars

C6_Witness ==
    /\ iter = 2
    /\ syntax_errors = 2
    /\ \E t, u \in triaged :
          /\ t[1].status = 0
          /\ u[1].status = 1
          /\ t[3] = "syntax"
          /\ u[3] = "syntax"
    /\ files = {}
    /\ seen = {}

\* a crash outcome is recorded: its signature enters Seen, the crash counter
\* goes up by one and its .js artifact is written
RecordedAsCrash(o) ==
    LET sig == crash_signature(o.stderr)
    IN  /\ seen' = seen \cup {sig}
        /\ crashes' = crashes + 1
        /\ \E f \in files' \ files : f.kind = "crash" /\ f.sig = sig /\ f.ext = "js"

NonSyntaxFailure(o) == ~o.timed_out /\ o.status # 0 /\ ~IsSyntaxError(o.stderr)

\* C7 as stated: a boring reference error records nothing; every other
\* non-zero, non-syntax-error exit is recorded as a crash when its signature is new.
C7_BoringOrRecorded ==
    [][(CompletedStep /\ GotOutcome /\ NonSyntaxFailure(NewOutcome))
       => IF Contains(NewOutcome.stderr, ReferenceErrorStr)
             /\ ~Contains(NewOutcome.stderr, PrototypeStr)
          THEN Unrecorded
          ELSE (crash_signature(NewOutcome.stderr) \notin seen
                    => RecordedAsCrash(NewOutcome))]_vars

\* the coverage gate turns the iteration's outcome down
GateRejects == GateActive /\ NewScore # None /\ NewScore[1] <= best_score

\* C7 amended: a boring reference error records nothing; every other
\* non-zero, non-syntax-error exit is recorded as a crash when its signature
\* is new, unless the coverage gate (scorer and keep_only_increasing, score
\* not above the best) turns it down, in which case nothing is recorded.
C7_BoringOrRecordedUnlessGated ==
    [][(CompletedStep /\ GotOutcome /\ NonSyntaxFailure(NewOutcome))
       => IF Contains(NewOutcome.stderr, ReferenceErrorStr)
             /\ ~Contains(NewOutcome.stderr, PrototypeStr)
          THEN Unrecorded
          ELSE IF GateRejects THEN Unrecorded
          ELSE (crash_signature(NewOutcome.stderr) \notin seen
                    => RecordedAsCrash(NewOutcome))]_vars

C7_Witness ==
    /\ iter = 2
    /\ crashes = 1
    /\ \E t, u \in triaged :
          /\ Contains(t[1].stderr, PrototypeStr) /\ t[3] = "crash"
          /\ Contains(u[1].stderr, ReferenceErrorStr) /\ u[3] = "boring"
    /\ \A f \in files : f.kind = "crash" /\ Contains(f.sig[2], PrototypeStr)
    /\ Cardinality(files) = 2

\* the earlier iterations that got the same answers as this step's
SameAnswersBefore ==
    {t \in triaged : t[1] = NewOutcome /\ t[2] = NewScore}

\* C10 as stated: an iteration that repeats an earlier one (same outcome,
\* same score) gets the same classification, writes no artifact and adds
\* nothing to Seen, with and without the gate.
C10_RepeatSameClass ==
    [][(CompletedStep /\ GotOutcome)
       => \A t \in SameAnswersBefore :
             /\ last'[1].cls = t[3]
             /\ files' = files
             /\ seen' = seen]_vars

\* C10 amended: the repeat writes no artifact and adds nothing to Seen; it
\* gets the same classification, except that under the gate the repeat of an
\* accepted timeout or crash is turned down as not increasing (not interesting).
C10_RepeatSameClassUnlessGated ==
    [][(CompletedStep /\ GotOutcome)
       => \A t \in SameAnswersBefore :
             /\ files' = files
             /\ seen' = seen
             /\ IF GateActive /\ t[3] \in {"timeout", "crash"}
                THEN last'[1].cls = "none"
                ELSE last'[1].cls = t[3]]_vars

C10_Witness ==
    /\ iter = 2
    /\ GateActive
    /\ \E t, u \in triaged : t[1] = u[1] /\ t[2] = u[2] /\ t[3] = "crash" /\ u[3] = "none"
    /\ Cardinality(files) = 2
    /\ crashes = 1

\* the iteration of this step met an I/O error while minimizing a newly seen
\* crash, and no write of the artifact pair failed
MinimizationError ==
    /\ IterationStep
    /\ last' # None
    /\ last'[1].min_error
    /\ last'[1].error # "write"

\* C11: an I/O error during the minimization of a newly seen crash, in
\* either minimize mode, does not end the run: the un-minimized program is
\* used and the crash artifact pair of that signature is still written.
C11_MinimizationBestEffort ==
    [][MinimizationError
       => /\ drv_pc' = "running"
          /\ iter' = iter + 1
          /\ \E f, g \in files' \ files :
                /\ f.kind = "crash" /\ f.ext = "js" /\ f.body = "prog"
                /\ g.kind = "crash" /\ g.ext = "stderr.txt"
                /\ f.sig = g.sig
                /\ f.sig = crash_signature(NewOutcome.stderr)]_vars

\* the call that failed in the iteration of this step
NewError == last'[1].error

\* C12: a failed seed read, temp-file write or engine spawn (main run or
\* scoring pass) in iteration i ends the run with an error: the iteration
\* adds nothing to the Seen set, the crash and timeout counters, the best
\* score or the artifacts, and no step is taken after it.
C12_FatalIoErrors ==
    [][/\ (IterationStep /\ last' # None /\ NewError \in {"seed", "run", "score"})
          => /\ drv_pc' = "failed"
             /\ iter' = iter
             /\ UNCHANGED <<seen, crashes, timeouts, best_score, files>>
             /\ NewError \in {"seed", "run"} => syntax_errors' = syntax_errors
       /\ drv_pc = "failed"
          => UNCHANGED <<drv_pc, iter, seen, syntax_errors, crashes, timeouts,
                         best_score, files>>]_vars

C12_Witness ==
    /\ drv_pc = "failed"
    /\ iter = 1
    /\ last[1].error = "score"
    /\ files # {}
    /\ Cardinality(seen) = 1

\* the lines ls without the lines whose (1-based) positions are in R
MinusLines(ls, R) ==
    LET F[k \in 0..Len(ls)] ==
            IF k = 0 THEN <<>>
            ELSE IF k \in R THEN F[k - 1]
            ELSE Append(F[k - 1], ls[k])
    IN  F[Len(ls)]

\* the oracle that accepts a candidate exactly when every line missing from
\* it, relative to the original program, is in R
AcceptsOnly(R, c) == \E D \in SUBSET R : c = Join(MinusLines(Lines(prog), D))

\* the proper subsets R of the program's lines that every answer given so
\* far agrees with
ConsistentSubsets ==
    {R \in SUBSET (1..Len(Lines(prog))) :
        /\ R # 1..Len(Lines(prog))
        /\ \A a \in answers : a[2] = AcceptsOnly(R, a[1])}

\* C13: when the oracle accepts a candidate exactly when every line missing
\* from it is in a proper subset R of the lines, the minimizer returns the
\* original lines minus exactly the lines of R, in their order; an accepted
\* deletion leaves the index, a rejected one advances it by one.
C13_GreedyLineDrop ==
    [][/\ (min_pc = "loop" /\ min_pc' = "returned")
          => \A R \in ConsistentSubsets :
                minimized' = Some(Join(MinusLines(Lines(prog), R)))
       /\ runs' = runs + 1
          => IF <<Candidate, TRUE>> \in answers'
             THEN i' = i /\ lines' = RemoveAt(lines, i)
             ELSE i' = i + 1 /\ lines' = lines]_vars

C13_Witness ==
    /\ min_pc = "returned"
    /\ Len(Lines(prog)) = 3
    /\ runs = 3
    /\ {2} \in ConsistentSubsets
    /\ minimized = Some(Join(<<Lines(prog)[1], Lines(prog)[3]>>))
    /\ Lines(prog)[1] # Lines(prog)[3]

(***************************************************************************)
(* Extractor::extract and the Mutator operations                           *)
(***************************************************************************)
\* re_int = \b\d+\b : length of the match that starts at p, 0 if none
ReIntMatchLen(s, p) ==
    IF /\ p <= Len(s)
       /\ s[p] \in Digits
       /\ ~IsWordAt(s, p - 1)
       /\ ~IsWordAt(s, p + RunLen(s, p, Digits))
    THEN RunLen(s, p, Digits)
    ELSE 0

\* re_int.replace_all(src, "<integer>"), from position p on
RECURSIVE ReplaceAllInt(_, _)
ReplaceAllInt(s, p) ==
    IF p > Len(s) THEN <<>>
    ELSE IF ReIntMatchLen(s, p) > 0
         THEN TokInteger \o ReplaceAllInt(s, p + ReIntMatchLen(s, p))
         ELSE <<s[p]>> \o ReplaceAllInt(s, p + 1)

LetStr == <<"l", "e", "t">>

\* \s
Whitespace == {" ", "\t", "\n", "\r"}

\* in a match of re_var_decl at p: where the captured name starts
VarDeclNameAt(s, p) == p + 3 + RunLen(s, p + 3, Whitespace)

\* re_var_decl = \blet\s+([a-zA-Z_]\w*) : length of the match that starts at
\* p, 0 if none
ReVarDeclMatchLen(s, p) ==
    IF /\ OccursAt(s, LetStr, p)
       /\ ~IsWordAt(s, p - 1)
       /\ RunLen(s, p + 3, Whitespace) > 0
       /\ VarDeclNameAt(s, p) <= Len(s)
       /\ s[VarDeclNameAt(s, p)] \in (Letters \cup {"_"})
    THEN (VarDeclNameAt(s, p) - p) + RunLen(s, VarDeclNameAt(s, p), WordChars)
    ELSE 0

\* re_var_decl.replace_all(&s, "let <var>"), from position p on
RECURSIVE ReplaceAllVarDecl(_, _)
ReplaceAllVarDecl(s, p) ==
    IF p > Len(s) THEN <<>>
    ELSE IF ReVarDeclMatchLen(s, p) > 0
         THEN LetStr \o <<" ">> \o TokVar
                  \o ReplaceAllVarDecl(s, p + ReVarDeclMatchLen(s, p))
         ELSE <<s[p]>> \o ReplaceAllVarDecl(s, p + 1)

\* the fallback path of extract: the two regex passes
ExtractFallback(src) == ReplaceAllVarDecl(ReplaceAllInt(src, 1), 1)

\* the AST path of extract, from position p on: every number node becomes
\* <integer>; the name of a declarator becomes <var> or stays, as the coin
\* falls; all other text stays. The parser's number nodes are taken to be the
\* decimal literals, its declarators the names after `let`.
RECURSIVE ExtractAstFrom(_, _)
ExtractAstFrom(s, p) ==
    IF p > Len(s) THEN {<<>>}
    ELSE IF ReIntMatchLen(s, p) > 0
         THEN {TokInteger \o r : r \in ExtractAstFrom(s, p + ReIntMatchLen(s, p))}
    ELSE IF ReVarDeclMatchLen(s, p) > 0
         THEN LET q    == VarDeclNameAt(s, p)
                  e    == p + ReVarDeclMatchLen(s, p)
                  rest == ExtractAstFrom(s, e)
              IN  {SubSeq(s, p, q - 1) \o TokVar \o r : r \in rest}
                      \cup {SubSeq(s, p, e - 1) \o r : r \in rest}
    ELSE {<<s[p]>> \o r : r \in ExtractAstFrom(s, p + 1)}

ExtractAst(src) == ExtractAstFrom(src, 1)

\* the statement templates of insert_placeholder
StmtTmpls ==
    {<<"l", "e", "t", " ", "<", "v", "a", "r", ">", " ", "=", " ", "<", "i",
       "n", "t", "e", "g", "e", "r", ">", ";">>,
     <<"c", "o", "n", "s", "t", " ", "<", "v", "a", "r", ">", " ", "=", " ",
       "<", "i", "n", "t", "e", "g", "e", "r", ">", ";">>,
     <<"f", "u", "n", "c", "t", "i", "o", "n", " ", "<", "v", "a", "r", ">",
       "(", ")", "{", " ", "r", "e", "t", "u", "r", "n", " ", "<", "i", "n",
       "t", "e", "g", "e", "r", ">", ";", " ", "}", " ", "<", "v", "a", "r",
       ">", "(", ")", ";">>,
     <<"t", "r", "y", " ", "{", " ", "<", "v", "a", "r", ">", " ", "=", " ",
       "<", "i", "n", "t", "e", "g", "e", "r", ">", ";", " ", "}", " ", "c",
       "a", "t", "c", "h", " ", "(", "e", ")", " ", "{", "}">>,
     <<"f", "o", "r", " ", "(", "l", "e", "t", " ", "<", "v", "a", "r", ">",
       " ", "=", " ", "0", ";", " ", "<", "v", "a", "r", ">", " ", "<", " ",
       "<", "i", "n", "t", "e", "g", "e", "r", ">", ";", " ", "<", "v", "a",
       "r", ">", "+", "+", ")", " ", "{", " ", "}">>,
     <<"(", "{", " ", "t", "o", "S", "t", "r", "i", "n", "g", "(", ")", "{",
       " ", "r", "e", "t", "u", "r", "n", " ", "<", "c", "o", "d", "e", "_",
       "s", "t", "r", ">", ";", " ", "}", " ", "}", ")", ";">>}

\* the statement of the line-boundary insertion
FallbackStmt ==
    <<"l", "e", "t", " ", "<", "v", "a", "r", ">", " ", "=", " ", "<", "i",
      "n", "t", "e", "g", "e", "r", ">", ";">>
\* str::split('\n'), from position p on with cur the segment collected so far
RECURSIVE SplitNL(_, _, _)
SplitNL(s, p, cur) ==
    IF p > Len(s) THEN <<cur>>
    ELSE IF s[p] = NL THEN <<cur>> \o SplitNL(s, p + 1, <<>>)
    ELSE SplitNL(s, p + 1, Append(cur, s[p]))

\* Vec::insert(idx, x), idx 0-based
InsertAt(ls, idx, x) == SubSeq(ls, 1, idx) \o <<x>> \o SubSeq(ls, idx + 1, Len(ls))

\* ast::insert_at_node: the insertion on a line of its own before byte b
InsertAtNode(src, b, insertion) ==
    LET head == SubSeq(src, 1, b)
        tail == SubSeq(src, b + 1, Len(src))
    IN  head
            \o (IF head # <<>> /\ head[Len(head)] = NL THEN <<>> ELSE <<NL>>)
            \o insertion
            \o (IF insertion # <<>> /\ insertion[Len(insertion)] = NL THEN <<>> ELSE <<NL>>)
            \o tail

\* node.start_byte() of the statement nodes the parser reports: the root, and
\* the statements that start a line
StmtStarts(src) == {0} \cup {p \in 1..(Len(src) - 1) : src[p] = NL}

\* Mutator::delete_placeholder
delete_placeholder(s) ==
    IF Contains(s, Tokens[1]) THEN ReplaceRange(s, Find(s, Tokens[1]), Len(Tokens[1]), <<>>)
    ELSE IF Contains(s, Tokens[2])
         THEN ReplaceRange(s, Find(s, Tokens[2]), Len(Tokens[2]), <<>>)
    ELSE IF Contains(s, Tokens[3])
         THEN ReplaceRange(s, Find(s, Tokens[3]), Len(Tokens[3]), <<>>)
    ELSE s

\* str::replace(from, to), from position p on
RECURSIVE StrReplace(_, _, _, _)
StrReplace(s, from, to, p) ==
    IF p > Len(s) THEN <<>>
    ELSE IF OccursAt(s, from, p) THEN to \o StrReplace(s, from, to, p + Len(from))
    ELSE <<s[p]>> \o StrReplace(s, from, to, p + 1)

\* Mutator::substitute_placeholder, for the two tokens drawn
substitute_placeholder(s, tok, with) == StrReplace(s, tok, with, 1)

\* Mutator::fuse
fuse(a, b) == a \o <<NL>> \o b

MaxSeedPieces == 3

MaxOps == 2

SeedPieces ==
    {<<"<">>, <<"b", ">">>, <<"7">>, <<" ">>, <<"l", "e", "t", " ", "b">>, TokVar}

\* the seed sources
Seeds == {Flatten(ps) : ps \in UNION {[1..k -> SeedPieces] : k \in 0..MaxSeedPieces}}

\* the templates a second seed gives, for fuse
FuseTemplates == UNION {ExtractAst(Flatten(<<pc>>)) : pc \in SeedPieces}

ExInit ==
    /\ ex_pc = "seed"
    /\ seed_src \in Seeds
    /\ template = <<>>
    /\ n_ops = 0
    /\ SigIdle
    /\ ConcIdle
    /\ EngIdle
    /\ MinIdle
    /\ DrvIdle

\* extract, the parse succeeds
ExtractByAst ==
    /\ ex_pc = "seed"
    /\ template' \in ExtractAst(seed_src)
    /\ ex_pc' = "template"
    /\ UNCHANGED <<seed_src, n_ops>>
    /\ UNCHANGED exOthers

\* extract, the parse returns nothing
ExtractByRegex ==
    /\ ex_pc = "seed"
    /\ template' = ExtractFallback(seed_src)
    /\ ex_pc' = "template"
    /\ UNCHANGED <<seed_src, n_ops>>
    /\ UNCHANGED exOthers

\* insert_placeholder, the parse succeeds
InsertPlaceholderAst ==
    /\ ex_pc = "template"
    /\ n_ops < MaxOps
    /\ \E insertion \in StmtTmpls, b \in StmtStarts(template) :
          template' = InsertAtNode(template, b, insertion)
    /\ n_ops' = n_ops + 1
    /\ UNCHANGED <<ex_pc, seed_src>>
    /\ UNCHANGED exOthers

\* insert_placeholder, the parse fails
InsertPlaceholderFallback ==
    /\ ex_pc = "template"
    /\ n_ops < MaxOps
    /\ \E idx \in 0..Len(SplitNL(template, 1, <<>>)) :
          template' = Join(InsertAt(SplitNL(template, 1, <<>>), idx, FallbackStmt))
    /\ n_ops' = n_ops + 1
    /\ UNCHANGED <<ex_pc, seed_src>>
    /\ UNCHANGED exOthers

DeletePlaceholder ==
    /\ ex_pc = "template"
    /\ n_ops < MaxOps
    /\ template' = delete_placeholder(template)
    /\ n_ops' = n_ops + 1
    /\ UNCHANGED <<ex_pc, seed_src>>
    /\ UNCHANGED exOthers

SubstitutePlaceholder ==
    /\ ex_pc = "template"
    /\ n_ops < MaxOps
    /\ \E tok \in Range(Tokens), with \in Range(Tokens) :
          template' = substitute_placeholder(template, tok, with)
    /\ n_ops' = n_ops + 1
    /\ UNCHANGED <<ex_pc, seed_src>>
    /\ UNCHANGED exOthers

Fuse ==
    /\ ex_pc = "template"
    /\ n_ops < MaxOps
    /\ \E b \in FuseTemplates : template' = fuse(template, b)
    /\ n_ops' = n_ops + 1
    /\ UNCHANGED <<ex_pc, seed_src>>
    /\ UNCHANGED exOthers

ExNext ==
    \/ ExtractByAst
    \/ ExtractByRegex
    \/ InsertPlaceholderAst
    \/ InsertPlaceholderFallback
    \/ DeletePlaceholder
    \/ SubstitutePlaceholder
    \/ Fuse

SpecEx == ExInit /\ [][ExNext]_vars

LowerOrUnderscore ==
    {"a", "b", "c", "d", "e", "f", "g", "h", "i", "j", "k", "l", "m",
     "n", "o", "p", "q", "r", "s", "t", "u", "v", "w", "x", "y", "z", "_"}

\* <[a-z_]+> : length of the match that starts at p, 0 if none
HoleShapeLen(s, p) ==
    IF /\ p <= Len(s)
       /\ s[p] = "<"
       /\ RunLen(s, p + 1, LowerOrUnderscore) > 0
       /\ p + 1 + RunLen(s, p + 1, LowerOrUnderscore) <= Len(s)
       /\ s[p + 1 + RunLen(s, p + 1, LowerOrUnderscore)] = ">"
    THEN RunLen(s, p + 1, LowerOrUnderscore) + 2
    ELSE 0

\* every substring of s matching <[a-z_]+> is a token of the vocabulary
TokenClosed(s) ==
    \A p \in 1..Len(s) :
        HoleShapeLen(s, p) > 0 =>
            SubSeq(s, p, p + HoleShapeLen(s, p) - 1) \in Range(Tokens)

\* C14: in every template that extract and the Mutator operations produce,
\* every substring matching <[a-z_]+> is one of <var>, <integer>, <code_str>.
C14_TokenClosure == ex_pc = "template" => TokenClosed(template)

\* C15: a child that has not exited is killed when exactly `timeout` has
\* elapsed since the spawn, not earlier and not later.
C15_KilledAtTimeout == killed => elapsed = timeout

TimeoutFiles == {f \in files : f.kind = "timeout"}

\* C16: at most one timeout artifact pair is ever written: every timed-out
\* outcome has the signature of the stderr "timeout", and a timeout is
\* recorded only if neither a timeout nor a crash with that signature was
\* recorded before.
C16_OneTimeoutPair ==
    /\ Cardinality({f \in TimeoutFiles : f.ext = "js"}) <= 1
    /\ Cardinality({f \in TimeoutFiles : f.ext = "stderr.txt"}) <= 1
    /\ \A f \in TimeoutFiles :
          /\ f.sig = crash_signature(TimeoutStr)
          /\ \A g \in files : g.sig = f.sig => (g.kind = "timeout" /\ g.iter = f.iter)
    /\ \A t \in triaged : t[1].timed_out => t[1].stderr = TimeoutStr

C16_Witness ==
    /\ iter = 2
    /\ crashes = 1
    /\ timeouts = 1
    /\ TimeoutFiles = {}
    /\ \E f \in files : f.kind = "crash" /\ f.iter = 0 /\ f.sig = crash_signature(TimeoutStr)
    /\ last[1].run[1].timed_out
    /\ last[1].cls = "timeout"

\* the artifact pairs of a kind: the .js files that have their .stderr.txt
Pairs(kind) ==
    {f \in files :
        /\ f.kind = kind
        /\ f.ext = "js"
        /\ \E g \in files :
              g.kind = kind /\ g.ext = "stderr.txt" /\ g.sig = f.sig /\ g.iter = f.iter}

\* C17: after every completed iteration of a run that has not failed,
\* unique_crashes is the number of crash artifact pairs, the size of Seen is
\* unique_crashes plus the number of timeout artifact pairs, and timeouts is
\* the number of accepted timed-out iterations, so at least the number of
\* timeout artifact pairs.
C17_CounterRelations ==
    drv_pc \in {"running", "finished"} =>
        /\ crashes = Cardinality(Pairs("crash"))
        /\ Cardinality(files) = 2 * (Cardinality(Pairs("crash")) + Cardinality(Pairs("timeout")))
        /\ Cardinality(seen) = crashes + Cardinality(Pairs("timeout"))
        /\ timeouts = Cardinality({p \in accepted : p[3] = "timeout"})
        /\ timeouts >= Cardinality(Pairs("timeout"))

\* timeouts strictly greater than the number of timeout artifact pairs
C17_Witness ==
    /\ drv_pc = "finished"
    /\ timeouts = 2
    /\ Cardinality(Pairs("timeout")) = 1
    /\ Cardinality(seen) = 1
    /\ crashes = 0

\* the score of the program of iteration k, an accepted one
ScoreOfIteration(k) == (CHOOSE p \in accepted : p[1] = k)[4][1]

\* under the gate, the recorded programs have scores above 0 that increase
\* with the iteration
RecordedScoresIncrease ==
    GateActive =>
        /\ \A f \in files : ScoreOfIteration(f.iter) > 0
        /\ \A f, g \in files :
              f.iter < g.iter => ScoreOfIteration(f.iter) < ScoreOfIteration(g.iter)

\* C18: the best score never decreases and changes only in iterations whose
\* outcome is a timeout or a non-boring crash; with a scorer and
\* keep_only_increasing, the scores of the programs whose artifacts are
\* recorded are strictly increasing in iteration order, and none is 0.
C18_BestScoreMonotone ==
    /\ []RecordedScoresIncrease
    /\ [][/\ best_score' >= best_score
          /\ best_score' # best_score
             => /\ IterationStep
                /\ GotOutcome
                /\ (NewOutcome.timed_out \/ IsCrash(NewOutcome))
                /\ best_score' = NewScore[1]]_vars

C18_Witness ==
    /\ GateActive
    /\ drv_pc = "finished"
    /\ best_score = 2
    /\ \E f, g \in files :
          /\ f.iter = 0 /\ g.iter = 1
          /\ f.kind = "timeout" /\ g.kind = "crash"
          /\ ScoreOfIteration(0) = 1 /\ ScoreOfIteration(1) = 2

\* the minimizer loop is over: it returned Ok or Err
MinLoopOver == min_pc # "loop"

\* at most one engine run per line of the program
RunsBounded == runs <= Len(Lines(prog))

\* each run removes a line or advances the index
RunsMeasured == runs = (Len(Lines(prog)) - Len(lines)) + i

====
